---- MODULE Spec2Model ----
(***************************************************************************)
(* Model of catfacts_analyzer.py: load_facts, compute_statistics,          *)
(* plot_length_histogram and main.                                         *)
(*                                                                         *)
(* Three specifications share the variables:                               *)
(*   Spec      one run of main() over an input file and a filesystem;      *)
(*   StatSpec  compute_statistics and the histogram binning applied to     *)
(*             bounded non-empty fact sequences;                           *)
(*   PlotSpec  repeated calls of plot_length_histogram in one process.     *)
(***************************************************************************)
EXTENDS Integers, Sequences, FiniteSets, TLC

(* ------------------------------ bounds --------------------------------- *)
MaxFacts == 6
MaxStatFacts == 4
MaxLength == 3
MaxPlotFacts == 2
MaxCalls == 3

(* ------------------------- program constants --------------------------- *)
PreviewCount == 5
NumBins == 10

VARIABLES
    pc,          \* position of the running code
    file,        \* content of data/cat_facts.json as the process finds it
    facts,       \* the value bound to `facts` (main) / the argument (pure)
    trace,       \* calls made, lines printed and files written, in order
    stats,       \* the dictionary returned by compute_statistics
    hist,        \* bin edges and counts drawn by plt.hist
    outDir,      \* state of the output directory path
    image,       \* the file at image_path
    openFigures, \* figures registered in pyplot and not yet closed
    calls,       \* number of plot_length_histogram calls made (PlotSpec)
    lastCall,    \* outcome of the latest plot_length_histogram call
    exitCode     \* process exit status, -1 while running

vars == <<pc, file, facts, trace, stats, hist, outDir, image, openFigures,
          calls, lastCall, exitCode>>

(* ------------------------------ helpers -------------------------------- *)
SeqsUpTo(S, lo, hi) == UNION {[1..k -> S] : k \in lo..hi}

MinOf(a, b) == IF a <= b THEN a ELSE b

RECURSIVE Gcd(_, _)
Gcd(a, b) == IF b = 0 THEN a ELSE Gcd(b, a % b)

RECURSIVE SumSeq(_)
SumSeq(s) == IF s = <<>> THEN 0 ELSE Head(s) + SumSeq(Tail(s))

(* JSON values that can sit under the "facts" key: null, a number, a list. *)
JList(items) == [t |-> "list", items |-> items]
JNull == [t |-> "null", items |-> <<>>]
JNumber == [t |-> "number", items |-> <<>>]

(* Variant: only None is falsy, as in `if facts is None`.                  *)
TruthyOnlyNone(v) == v.t /= "null"

(* Python truthiness of a loaded value: None and [] are falsy.             *)
Truthy(v) == \/ v.t = "number"
             \/ v.t = "list" /\ v.items /= <<>>

HasKey(rec, k) == k \in DOMAIN rec

WellFormed(items) == \A i \in DOMAIN items :
                        HasKey(items[i], "fact") /\ HasKey(items[i], "length")

(* One entry of the trace.                                                 *)
Ev(e, i, t, n) == [ev |-> e, idx |-> i, text |-> t, num |-> n]
Call(fn) == Ev(fn, 0, "", 0)
Line(kind, n) == Ev(kind, 0, "", n)
FactLine(i, rec) == Ev("print_fact", i, rec.fact, rec.length)

IsPrint(e) == e.ev \in {"print_nofacts", "print_header", "print_fact",
                        "print_stats_header", "print_total", "print_shortest",
                        "print_longest", "print_average", "print_confirm"}
Console == SelectSeq(trace, IsPrint)
Printed(kind) == \E i \in DOMAIN trace : trace[i].ev = kind
Count(kind) == Cardinality({i \in DOMAIN trace : trace[i].ev = kind})

(* ------------------------------ load_facts ----------------------------- *)
(* open() fails on a missing/unreadable file, json.load on invalid JSON,   *)
(* data.get on a top-level value that is not an object.                    *)
load_facts(f) ==
    IF f.kind \in {"missing", "badjson", "array"}
    THEN [ok |-> FALSE, value |-> JNull]
    ELSE [ok |-> TRUE,
          value |-> IF f.hasFacts THEN f.facts ELSE JList(<<>>)]

(* --------------------------- compute_statistics ------------------------ *)
(* Variant: the text is measured instead of reading the stored length.     *)
LengthsRemeasured(items) == [i \in DOMAIN items |-> Len(items[i].fact)]

Lengths(items) == [i \in DOMAIN items |-> items[i].length]

PyMin(lengths) == CHOOSE m \in {lengths[i] : i \in DOMAIN lengths} :
                     \A i \in DOMAIN lengths : m <= lengths[i]
PyMax(lengths) == CHOOSE m \in {lengths[i] : i \in DOMAIN lengths} :
                     \A i \in DOMAIN lengths : m >= lengths[i]

(* statistics.mean: the exact fraction sum/n in lowest terms.              *)
PyMean(lengths) ==
    LET s == SumSeq(lengths)
        n == Len(lengths)
        g == Gcd(s, n)
    IN  [num |-> s \div g, den |-> n \div g]

NoStats == [state |-> "none", count |-> 0, min_length |-> 0, max_length |-> 0,
            avg_length |-> [num |-> 0, den |-> 1]]
StatsError == [NoStats EXCEPT !.state = "error"]

(* Variant: the minimum and the maximum are stored under each other's key. *)
compute_statistics_swapped(items) ==
    IF \E i \in DOMAIN items : ~HasKey(items[i], "length") THEN StatsError
    ELSE IF items = <<>> THEN StatsError
    ELSE LET lengths == Lengths(items)
         IN  [state |-> "ok",
              count |-> Len(lengths),
              min_length |-> PyMax(lengths),
              max_length |-> PyMin(lengths),
              avg_length |-> PyMean(lengths)]

compute_statistics(items) ==
    IF \E i \in DOMAIN items : ~HasKey(items[i], "length") THEN StatsError
    ELSE IF items = <<>> THEN StatsError
    ELSE LET lengths == Lengths(items)
         IN  [state |-> "ok",
              count |-> Len(lengths),
              min_length |-> PyMin(lengths),
              max_length |-> PyMax(lengths),
              avg_length |-> PyMean(lengths)]

(* f"{x:.2f}": the value in hundredths, rounded half to even.              *)
Format2f(q) ==
    LET n == 100 * q.num
        whole == n \div q.den
        rest == n % q.den
    IN  IF 2 * rest < q.den THEN whole
        ELSE IF 2 * rest > q.den THEN whole + 1
        ELSE IF whole % 2 = 0 THEN whole ELSE whole + 1

(* ------------------------------- plt.hist ------------------------------ *)
(* Edges are kept in units of 1/EdgeScale so that they stay integers.      *)
EdgeScale == 2 * NumBins

(* Outer edges: the data range; a range of width zero is widened by one    *)
(* half on each side, an empty sample uses 0..1.                           *)
HistRange(lengths) ==
    IF lengths = <<>> THEN [first |-> 0, last |-> EdgeScale]
    ELSE LET mn == PyMin(lengths)
             mx == PyMax(lengths)
         IN  IF mn = mx
             THEN [first |-> EdgeScale * mn - NumBins,
                   last |-> EdgeScale * mx + NumBins]
             ELSE [first |-> EdgeScale * mn, last |-> EdgeScale * mx]

BinEdges(lengths) ==
    LET r == HistRange(lengths)
    IN  [i \in 0..NumBins |-> r.first + i * ((r.last - r.first) \div NumBins)]

(* Variant: every bin half-open, the last one included.                    *)
InBinHalfOpen(edges, v, i) ==
    /\ edges[i] <= EdgeScale * v
    /\ EdgeScale * v < edges[i + 1]

(* Bins are half-open [e_i, e_i+1), the last one closed.                   *)
InBin(edges, v, i) ==
    /\ edges[i] <= EdgeScale * v
    /\ \/ EdgeScale * v < edges[i + 1]
       \/ i = NumBins - 1 /\ EdgeScale * v = edges[i + 1]

Histogram(lengths) ==
    LET edges == BinEdges(lengths)
    IN  [edges |-> edges,
         counts |-> [i \in 0..(NumBins - 1) |->
                       Cardinality({k \in DOMAIN lengths :
                                       InBin(edges, lengths[k], i)})]]

NoHist == [edges |-> [i \in 0..NumBins |-> 0],
           counts |-> [i \in 0..(NumBins - 1) |-> 0]]

(* ------------------------- plot_length_histogram ----------------------- *)
NoImage == [exists |-> FALSE, counts |-> NoHist.counts]
StaleImage == [exists |-> TRUE, counts |-> NoHist.counts]

(* Variant: os.makedirs(dirname) without exist_ok.                         *)
makedirs_strict(dir) ==
    IF dir = "missing" THEN [ok |-> TRUE, dir |-> "dir"]
    ELSE [ok |-> FALSE, dir |-> dir]

(* os.makedirs(dirname, exist_ok=True)                                     *)
makedirs(dir) ==
    IF dir = "file" THEN [ok |-> FALSE, dir |-> dir]
    ELSE IF dir = "missing" THEN [ok |-> TRUE, dir |-> "dir"]
    ELSE [ok |-> TRUE, dir |-> dir]

(* plt.savefig(output_path): opens the path for writing and truncates it.  *)
savefig(dir, img, h) ==
    IF dir = "dir" THEN [ok |-> TRUE, img |-> [exists |-> TRUE, counts |-> h.counts]]
    ELSE [ok |-> FALSE, img |-> img]

plot_length_histogram(items, dir, img, figs) ==
    IF \E i \in DOMAIN items : ~HasKey(items[i], "length")
    THEN [ok |-> FALSE, dir |-> dir, img |-> img, figs |-> figs, hist |-> NoHist]
    ELSE LET h == Histogram(Lengths(items))
             opened == figs + 1
             md == makedirs(dir)
             sv == savefig(md.dir, img, h)
         IN  IF ~md.ok
             THEN [ok |-> FALSE, dir |-> dir, img |-> img, figs |-> opened,
                   hist |-> h]
             ELSE IF ~sv.ok
             THEN [ok |-> FALSE, dir |-> md.dir, img |-> img, figs |-> opened,
                   hist |-> h]
             ELSE [ok |-> TRUE, dir |-> md.dir, img |-> sv.img,
                   figs |-> opened - 1, hist |-> h]

(* ------------------------------ environment ---------------------------- *)
Texts == {"a", "bcd"}

(* Records of the input file used for runs of main: two well-formed ones   *)
(* (the second with a stored length that differs from its text), one       *)
(* without "fact" and one without "length".                                *)
MainRecords == {[fact |-> "a", length |-> 1], [fact |-> "bcd", length |-> 2],
                [length |-> 1], [fact |-> "a"]}

Unparsed(k) == [kind |-> k, hasFacts |-> FALSE, facts |-> JNull]
Object(has, v) == [kind |-> "object", hasFacts |-> has, facts |-> v]

InputFiles ==
    {Unparsed("missing"), Unparsed("badjson"), Unparsed("array")}
    \cup {Object(FALSE, JNull), Object(TRUE, JNull), Object(TRUE, JNumber)}
    \cup {Object(TRUE, JList(s)) : s \in SeqsUpTo(MainRecords, 0, MaxFacts)}

(* The output directory path: absent, a writable directory, a directory in *)
(* which the image cannot be written, or a regular file.                   *)
FileSystems ==
    {[dir |-> "missing", img |-> NoImage], [dir |-> "file", img |-> NoImage],
     [dir |-> "dir", img |-> NoImage], [dir |-> "dir", img |-> StaleImage],
     [dir |-> "rodir", img |-> NoImage], [dir |-> "rodir", img |-> StaleImage]}

(* --------------------------------- main -------------------------------- *)
Init ==
    /\ pc = "start"
    /\ file \in InputFiles
    /\ facts = JNull
    /\ trace = <<>>
    /\ stats = NoStats
    /\ hist = NoHist
    /\ \E fs \in FileSystems : outDir = fs.dir /\ image = fs.img
    /\ openFigures = 0
    /\ calls = 0
    /\ lastCall = "none"
    /\ exitCode = -1

Crash == pc' = "crashed" /\ exitCode' = 1
Return == pc' = "done" /\ exitCode' = 0

(* facts = load_facts(data_path)                                           *)
MainLoad ==
    /\ pc = "start"
    /\ LET r == load_facts(file)
       IN  /\ trace' = Append(trace, Call("load_facts"))
           /\ IF r.ok
              THEN /\ facts' = r.value
                   /\ pc' = "loaded"
                   /\ exitCode' = exitCode
              ELSE /\ facts' = facts
                   /\ Crash
    /\ UNCHANGED <<file, stats, hist, outDir, image, openFigures, calls, lastCall>>

(* if not facts: print(...); return                                        *)
MainGuard ==
    /\ pc = "loaded"
    /\ IF ~Truthy(facts)
       THEN /\ trace' = Append(trace, Line("print_nofacts", 0))
            /\ Return
       ELSE /\ trace' = trace
            /\ pc' = "report"
            /\ exitCode' = exitCode
    /\ UNCHANGED <<file, facts, stats, hist, outDir, image, openFigures, calls,
                   lastCall>>

(* Variant: the listing loops over facts instead of facts[:5].             *)
PreviewAll(items) == items

(* facts[:5]                                                               *)
Preview(items) == SubSeq(items, 1, MinOf(Len(items), PreviewCount))

(* The lines the listing loop prints before it finishes or raises KeyError *)
RECURSIVE Listing(_, _)
Listing(items, i) ==
    IF i > Len(items) THEN <<>>
    ELSE IF ~(HasKey(items[i], "fact") /\ HasKey(items[i], "length")) THEN <<>>
    ELSE <<FactLine(i, items[i])>> \o Listing(items, i + 1)

(* print header; for idx, fact in enumerate(facts[:5], start=1): print     *)
MainReport ==
    /\ pc = "report"
    /\ IF facts.t /= "list"
       THEN /\ trace' = Append(trace, Line("print_header", 0))
            /\ Crash
       ELSE LET shown == Preview(facts.items)
            IN  /\ trace' = Append(trace, Line("print_header", 0))
                             \o Listing(shown, 1)
                /\ IF WellFormed(shown)
                   THEN pc' = "stats" /\ exitCode' = exitCode
                   ELSE Crash
    /\ UNCHANGED <<file, facts, stats, hist, outDir, image, openFigures, calls,
                   lastCall>>

(* Variant: the longest length is printed before the shortest.             *)
StatLinesReordered(s) ==
    <<Line("print_stats_header", 0), Line("print_total", s.count),
      Line("print_longest", s.max_length), Line("print_shortest", s.min_length),
      Line("print_average", Format2f(s.avg_length))>>

StatLines(s) ==
    <<Line("print_stats_header", 0), Line("print_total", s.count),
      Line("print_shortest", s.min_length), Line("print_longest", s.max_length),
      Line("print_average", Format2f(s.avg_length))>>

(* stats = compute_statistics(facts); the five print calls                 *)
MainStats ==
    /\ pc = "stats"
    /\ LET s == compute_statistics(facts.items)
       IN  /\ stats' = s
           /\ IF s.state = "ok"
              THEN /\ trace' = Append(trace, Call("compute_statistics"))
                                \o StatLines(s)
                   /\ pc' = "plot"
                   /\ exitCode' = exitCode
              ELSE /\ trace' = Append(trace, Call("compute_statistics"))
                   /\ Crash
    /\ UNCHANGED <<file, facts, hist, outDir, image, openFigures, calls, lastCall>>

(* Variant: the call is wrapped in try/except: pass.                       *)
MainPlotSwallow ==
    /\ pc = "plot"
    /\ LET r == plot_length_histogram(facts.items, outDir, image, openFigures)
       IN  /\ outDir' = r.dir
           /\ image' = r.img
           /\ openFigures' = r.figs
           /\ hist' = r.hist
           /\ lastCall' = IF r.ok THEN "ok" ELSE "error"
           /\ trace' = IF r.ok
                       THEN trace \o <<Call("plot_length_histogram"),
                                       Call("write_image")>>
                       ELSE Append(trace, Call("plot_length_histogram"))
           /\ pc' = "confirm"
           /\ exitCode' = exitCode
    /\ calls' = calls + 1
    /\ UNCHANGED <<file, facts, stats>>

(* plot_length_histogram(facts, image_path)                                *)
MainPlot ==
    /\ pc = "plot"
    /\ LET r == plot_length_histogram(facts.items, outDir, image, openFigures)
       IN  /\ outDir' = r.dir
           /\ image' = r.img
           /\ openFigures' = r.figs
           /\ hist' = r.hist
           /\ lastCall' = IF r.ok THEN "ok" ELSE "error"
           /\ IF r.ok
              THEN /\ trace' = trace \o <<Call("plot_length_histogram"),
                                          Call("write_image")>>
                   /\ pc' = "confirm"
                   /\ exitCode' = exitCode
              ELSE /\ trace' = Append(trace, Call("plot_length_histogram"))
                   /\ Crash
    /\ calls' = calls + 1
    /\ UNCHANGED <<file, facts, stats>>

(* print(f"\nHistogram saved to {image_path}"), then main returns          *)
MainConfirm ==
    /\ pc = "confirm"
    /\ trace' = Append(trace, Line("print_confirm", 0))
    /\ Return
    /\ UNCHANGED <<file, facts, stats, hist, outDir, image, openFigures, calls,
                   lastCall>>

Next == MainLoad \/ MainGuard \/ MainReport \/ MainStats \/ MainPlot \/ MainConfirm

Spec == Init /\ [][Next]_vars

(* ------------ compute_statistics and plt.hist on their own ------------- *)
StatRecords == {[fact |-> t, length |-> n] : t \in Texts, n \in 0..MaxLength}

StatInit ==
    /\ pc = "pure"
    /\ facts \in {JList(s) : s \in SeqsUpTo(StatRecords, 1, MaxStatFacts)}
    /\ file = Object(TRUE, facts)
    /\ trace = <<>>
    /\ stats = NoStats
    /\ hist = NoHist
    /\ outDir = "dir"
    /\ image = NoImage
    /\ openFigures = 0
    /\ calls = 0
    /\ lastCall = "none"
    /\ exitCode = -1

(* stats = compute_statistics(facts)                                       *)
ApplyStatistics ==
    /\ pc = "pure"
    /\ stats.state = "none"
    /\ stats' = compute_statistics(facts.items)
    /\ UNCHANGED <<pc, file, facts, trace, hist, outDir, image, openFigures,
                   calls, lastCall, exitCode>>

(* plt.hist(lengths, bins=10)                                              *)
ApplyHistogram ==
    /\ pc = "pure"
    /\ lastCall = "none"
    /\ hist' = Histogram(Lengths(facts.items))
    /\ lastCall' = "hist"
    /\ UNCHANGED <<pc, file, facts, trace, stats, outDir, image, openFigures,
                   calls, exitCode>>

StatNext == ApplyStatistics \/ ApplyHistogram

StatSpec == StatInit /\ [][StatNext]_vars

(* ------------- plot_length_histogram called again and again ------------ *)
PlotInit ==
    /\ pc = "plotter"
    /\ facts \in {JList(s) : s \in SeqsUpTo(MainRecords, 1, MaxPlotFacts)}
    /\ file = Object(TRUE, facts)
    /\ trace = <<>>
    /\ stats = NoStats
    /\ hist = NoHist
    /\ \E fs \in FileSystems : outDir = fs.dir /\ image = fs.img
    /\ openFigures = 0
    /\ calls = 0
    /\ lastCall = "none"
    /\ exitCode = -1

(* One call plot_length_histogram(facts, image_path), same arguments.      *)
PlotCall ==
    /\ pc = "plotter"
    /\ calls < MaxCalls
    /\ LET r == plot_length_histogram(facts.items, outDir, image, openFigures)
       IN  /\ outDir' = r.dir
           /\ image' = r.img
           /\ openFigures' = r.figs
           /\ hist' = r.hist
           /\ lastCall' = IF r.ok THEN "ok" ELSE "error"
           /\ trace' = IF r.ok
                       THEN trace \o <<Call("plot_length_histogram"),
                                       Call("write_image")>>
                       ELSE Append(trace, Call("plot_length_histogram"))
    /\ calls' = calls + 1
    /\ UNCHANGED <<pc, file, facts, stats, exitCode>>

PlotNext == PlotCall

PlotSpec == PlotInit /\ [][PlotNext]_vars

(* ============================ properties =============================== *)
Terminated == pc \in {"done", "crashed"}
FactLines == SelectSeq(trace, LAMBDA e : e.ev = "print_fact")
Shown(items) == MinOf(Len(items), PreviewCount)

(* Position of an event in the order main goes through.                    *)
Rank(e) ==
    CASE e.ev = "load_facts" -> 1
      [] e.ev = "print_header" -> 2
      [] e.ev = "print_fact" -> 3
      [] e.ev = "compute_statistics" -> 4
      [] e.ev = "print_stats_header" -> 5
      [] e.ev = "print_total" -> 6
      [] e.ev = "print_shortest" -> 7
      [] e.ev = "print_longest" -> 8
      [] e.ev = "print_average" -> 9
      [] e.ev = "plot_length_histogram" -> 10
      [] e.ev = "write_image" -> 11
      [] e.ev = "print_confirm" -> 12
      [] OTHER -> 0
LastRank == Rank(Line("print_confirm", 0))

(* The report lines main prints before the Plotter is called.              *)
ReportLines(items) ==
    <<Line("print_header", 0)>>
    \o [i \in 1..Shown(items) |-> Ev("print_fact", i, items[i].fact, items[i].length)]
    \o <<Line("print_stats_header", 0), Line("print_total", stats.count),
         Line("print_shortest", stats.min_length),
         Line("print_longest", stats.max_length),
         Line("print_average", Format2f(stats.avg_length))>>

CompleteRun ==
    /\ pc = "done"
    /\ Printed("print_confirm")
    /\ Count("write_image") = 1
    /\ image.exists
    /\ Console = Append(ReportLines(facts.items), Line("print_confirm", 0))

(* C1: when the Loader returns an empty sequence (key absent or empty      *)
(* list), main prints only the diagnostic, returns with exit code 0, and   *)
(* neither compute_statistics nor plot_length_histogram is ever called, so *)
(* no statistics exist and no image is written.                            *)
C1_EmptyTakesDiagnosticPath ==
    (facts = JList(<<>>)) =>
        /\ pc \in {"loaded", "done"}
        /\ Count("compute_statistics") = 0
        /\ Count("plot_length_histogram") = 0
        /\ Count("write_image") = 0
        /\ stats = NoStats
        /\ calls = 0
        /\ pc = "loaded" => Console = <<>>
        /\ pc = "done" => Console = <<Line("print_nofacts", 0)>> /\ exitCode = 0

C1_Witness ==
    /\ pc = "done"
    /\ facts = JList(<<>>)
    /\ ~file.hasFacts
    /\ Console = <<Line("print_nofacts", 0)>>

(* C2: for every non-empty fact sequence compute_statistics returns count  *)
(* equal to the sequence length and min_length <= avg_length <= max_length.*)
C2_StatisticsOrdered ==
    (pc = "pure" /\ stats.state /= "none") =>
        /\ stats.state = "ok"
        /\ stats.count = Len(facts.items)
        /\ stats.avg_length.den > 0
        /\ stats.min_length * stats.avg_length.den <= stats.avg_length.num
        /\ stats.avg_length.num <= stats.max_length * stats.avg_length.den

C2_Witness ==
    /\ pc = "pure"
    /\ stats.state = "ok"
    /\ stats.count = MaxStatFacts
    /\ stats.min_length < stats.max_length
    /\ stats.avg_length.den > 1

(* C3: after any sequence of plot_length_histogram calls, successful or    *)
(* failed, no figure remains open.                                         *)
C3_NoFigureLeftOpen ==
    (pc = "plotter") => openFigures = 0

(* C4 as claimed: a run that has ended either completed the whole report   *)
(* and plot, or produced nothing beyond the diagnostic message.            *)
C4_NoPartialOutput ==
    Terminated =>
        \/ CompleteRun
        \/ Console = <<>>
        \/ Console = <<Line("print_nofacts", 0)>>

(* C4 amended: a run that returns either completed the whole report and    *)
(* plot or printed only the diagnostic; a run that fails exits non-zero    *)
(* with neither the diagnostic nor the confirmation printed, and keeps the *)
(* report lines printed before the failing step: after a failed Plotter    *)
(* call these are the header, the listing and the statistics lines, and    *)
(* no image has been written.                                              *)
C4_FailureKeepsPrintedLines ==
    /\ pc = "done" => CompleteRun \/ Console = <<Line("print_nofacts", 0)>>
    /\ Printed("print_confirm") => Count("write_image") = 1
    /\ pc = "crashed" =>
          /\ exitCode = 1
          /\ ~Printed("print_confirm")
          /\ ~Printed("print_nofacts")
          /\ Count("write_image") = 0
          /\ Count("plot_length_histogram") > 0 =>
                Console = ReportLines(facts.items)

C4_Witness ==
    /\ pc = "crashed"
    /\ Count("plot_length_histogram") = 1
    /\ Len(facts.items) > 1
    /\ Console = ReportLines(facts.items)

(* C5: once the listing loop has finished, the fact lines printed are      *)
(* exactly the first min(N, 5) facts in order, numbered from 1, each with  *)
(* its own text and stored length.                                         *)
C5_ListingShowsFirstFive ==
    (Count("compute_statistics") > 0) =>
        /\ Len(FactLines) = Shown(facts.items)
        /\ \A i \in 1..Shown(facts.items) :
              FactLines[i] = Ev("print_fact", i, facts.items[i].fact,
                                facts.items[i].length)

C5_Witness ==
    /\ pc = "done"
    /\ Len(facts.items) > PreviewCount
    /\ Len(FactLines) = PreviewCount
    /\ facts.items[1] /= facts.items[2]

(* The input file is missing, unreadable or not of the expected shape.     *)
Malformed(f) ==
    \/ f.kind /= "object"
    \/ /\ f.hasFacts
       /\ \/ f.facts.t /= "list"
          \/ ~WellFormed(f.facts.items)

(* C6: a missing, unreadable or malformed input file always ends the run   *)
(* with an uncaught error and a non-zero status, with neither the          *)
(* diagnostic nor the confirmation line printed.                           *)
C6_MalformedIsFatal ==
    (Malformed(file) /\ Terminated) =>
        /\ pc = "crashed"
        /\ exitCode /= 0
        /\ ~Printed("print_nofacts")
        /\ ~Printed("print_confirm")

(* Sum of the stored length fields of items[1..k].                         *)
RECURSIVE StoredSum(_, _)
StoredSum(items, k) ==
    IF k = 0 THEN 0 ELSE StoredSum(items, k - 1) + items[k].length

(* C7: compute_statistics agrees with the reference definitions over the   *)
(* stored length fields: the smallest, the largest, and the sum divided by *)
(* the count; for one fact all three equal its stored length and count = 1.*)
C7_StatisticsFromStoredLengths ==
    (pc = "pure" /\ stats.state /= "none") =>
        LET items == facts.items
            n == Len(items)
        IN  /\ stats.state = "ok"
            /\ \A i \in 1..n : stats.min_length <= items[i].length
            /\ \E i \in 1..n : stats.min_length = items[i].length
            /\ \A i \in 1..n : stats.max_length >= items[i].length
            /\ \E i \in 1..n : stats.max_length = items[i].length
            /\ stats.avg_length.num * n = StoredSum(items, n) * stats.avg_length.den
            /\ n = 1 => /\ stats.count = 1
                        /\ stats.min_length = items[1].length
                        /\ stats.max_length = items[1].length
                        /\ stats.avg_length = [num |-> items[1].length, den |-> 1]

C7_Witness ==
    /\ pc = "pure"
    /\ stats.state = "ok"
    /\ Len(facts.items) = 1
    /\ facts.items[1].length /= Len(facts.items[1].fact)
    /\ stats.min_length = facts.items[1].length

(* C8: with well-formed facts and an output directory that is missing or   *)
(* a writable directory, every call so far has succeeded, the directory    *)
(* exists and the image at the path is the histogram just drawn.           *)
C8_RepeatedPlotSucceeds ==
    (pc = "plotter" /\ WellFormed(facts.items) /\ outDir \in {"missing", "dir"}) =>
        /\ lastCall /= "error"
        /\ Count("plot_length_histogram") = calls
        /\ Count("write_image") = calls
        /\ openFigures = 0
        /\ calls > 0 =>
              /\ outDir = "dir"
              /\ image = [exists |-> TRUE,
                          counts |-> Histogram(Lengths(facts.items)).counts]
              /\ image /= StaleImage

C8_Witness ==
    /\ pc = "plotter"
    /\ WellFormed(facts.items)
    /\ calls = MaxCalls
    /\ lastCall = "ok"
    /\ Count("write_image") = MaxCalls
    /\ image.exists

SumCounts(h) == SumSeq([i \in 1..NumBins |-> h.counts[i - 1]])

(* Number of values strictly inside, and inside or on the edges of, bin i. *)
StrictlyIn(lengths, h, i) ==
    Cardinality({k \in DOMAIN lengths :
                    /\ h.edges[i] < EdgeScale * lengths[k]
                    /\ EdgeScale * lengths[k] < h.edges[i + 1]})
WithinOrOn(lengths, h, i) ==
    Cardinality({k \in DOMAIN lengths :
                    /\ h.edges[i] <= EdgeScale * lengths[k]
                    /\ EdgeScale * lengths[k] <= h.edges[i + 1]})

(* 10 bins of one positive width; a bin counts the values inside it and    *)
(* none outside it; the counts add up to the number of values.             *)
Binning(lengths, h) ==
    /\ DOMAIN h.counts = 0..(NumBins - 1)
    /\ DOMAIN h.edges = 0..NumBins
    /\ h.edges[1] > h.edges[0]
    /\ \A i \in 0..(NumBins - 1) :
          /\ h.edges[i + 1] - h.edges[i] = h.edges[1] - h.edges[0]
          /\ StrictlyIn(lengths, h, i) <= h.counts[i]
          /\ h.counts[i] <= WithinOrOn(lengths, h, i)
    /\ SumCounts(h) = Len(lengths)

(* C9 as claimed: 10 equal-width bins whose edges run from the smallest to *)
(* the largest length, every value counted once, for every non-empty       *)
(* sequence.                                                               *)
C9_EdgesSpanMinToMax ==
    (pc = "pure" /\ lastCall = "hist") =>
        LET lengths == Lengths(facts.items)
        IN  /\ hist.edges[0] = EdgeScale * PyMin(lengths)
            /\ hist.edges[NumBins] = EdgeScale * PyMax(lengths)
            /\ Binning(lengths, hist)

(* C9 amended: 10 equal-width bins, every value counted once so that the   *)
(* counts sum to the number of facts; the edges run from the smallest to   *)
(* the largest length when these differ, and from that length minus 0.5 to *)
(* that length plus 0.5 when all lengths are equal.                        *)
C9_EdgesSpanWidenedRange ==
    (pc = "pure" /\ lastCall = "hist") =>
        LET lengths == Lengths(facts.items)
            mn == PyMin(lengths)
            mx == PyMax(lengths)
        IN  /\ mn < mx => /\ hist.edges[0] = EdgeScale * mn
                          /\ hist.edges[NumBins] = EdgeScale * mx
            /\ mn = mx => /\ 2 * hist.edges[0] = EdgeScale * (2 * mn - 1)
                          /\ 2 * hist.edges[NumBins] = EdgeScale * (2 * mx + 1)
            /\ Binning(lengths, hist)

C9_Witness ==
    /\ pc = "pure"
    /\ lastCall = "hist"
    /\ Len(facts.items) > 1
    /\ PyMin(Lengths(facts.items)) = PyMax(Lengths(facts.items))
    /\ SumCounts(hist) = Len(facts.items)

(* C10: in every run on a non-empty loaded sequence the events occur in    *)
(* the fixed order load, header, listing, statistics and its four lines,   *)
(* plot and image write, confirmation, each step once; the confirmation    *)
(* is printed only after the image was written; the completed run has      *)
(* gone through every step and exits with code 0.                          *)
C10_FixedOrder ==
    Truthy(facts) =>
        /\ \A i, j \in DOMAIN trace :
              i < j => \/ Rank(trace[i]) < Rank(trace[j])
                       \/ /\ trace[i].ev = "print_fact"
                          /\ trace[j].ev = "print_fact"
                          /\ trace[i].idx < trace[j].idx
        /\ \A i \in DOMAIN trace : Rank(trace[i]) > 0
        /\ Printed("print_confirm") => Printed("write_image") /\ image.exists
        /\ pc = "done" =>
              /\ exitCode = 0
              /\ \A r \in 1..LastRank : \E i \in DOMAIN trace : Rank(trace[i]) = r
              /\ Console = Append(ReportLines(facts.items), Line("print_confirm", 0))

C10_Witness ==
    /\ pc = "done"
    /\ Truthy(facts)
    /\ exitCode = 0
    /\ Len(trace) = LastRank - 1 + Shown(facts.items)
    /\ trace[Len(trace)].ev = "print_confirm"

====
